---- MODULE Spec2Model ----
(***************************************************************************)
(* Model of the PPTAS document cache (PersistenceService, SQLite) and of   *)
(* the chunked vector store (VectorStoreService, Chroma) together with the *)
(* request handlers of app.py that drive them.                             *)
(*                                                                         *)
(* Python values are denoted by their literals, written as TLA+ strings:   *)
(* "None" is None, "{}" is the empty dict, "'{}'" is the str '{}'.  A JSON *)
(* text is a Python str, so json.dumps maps "{}" to "'{}'".                *)
(***************************************************************************)
EXTENDS Integers, Sequences, FiniteSets, TLC

\* ------------------------------------------------------------------ bounds
MaxCalls == 2        \* PersistenceService calls started in one behaviour
MaxRequests == 3     \* HTTP requests handled in one behaviour
MaxLen == 7          \* characters of a text handed to _split_text_for_embedding
MaxTokens == 2       \* largest max_tokens handed to _split_text_for_embedding

\* request workers running handlers concurrently
Workers == {"w1", "w2"}
WorkerBefore(v, w) == v = "w1" /\ w = "w2"

\* ------------------------------------------------------------ input domains
\* doc_id values a request may name: the first uuid4 values, stored or not
DocIds == {"u1", "u2"}
Hashes == {"h1", "h2"}
PageIds == {1, 2}
\* what a caller passes as global_analysis: Optional[Dict]
GlobalAnalyses == {"None", "{}", "{'main_topic': 'A'}"}
\* what a caller passes as a page analysis payload: Dict
Analyses == {"{}", "{'notes': 'x'}", "{'notes': 'y'}"}
\* (file_name, file_type, slides) triples a caller passes together
Uploads == {[file_name |-> "a.pdf", file_type |-> "pdf", slides |-> "[deckA]"],
            [file_name |-> "b.pptx", file_type |-> "pptx", slides |-> "[deckB]"]}

VARIABLES
    documents,      \* rows of table documents
    page_analysis,  \* rows of table page_analysis
    clock,          \* datetime.now()
    lock,           \* holder of PersistenceService._lock, "free" when free
    pc,             \* pc[w]: position of worker w inside its current call
    loc,            \* loc[w]: arguments and locals of worker w's current call
    ret,            \* ret[w]: outcome of the last call worker w finished
    calls,          \* number of calls started so far
    chunks,         \* the documents held by the Chroma collection
    uuids,          \* number of uuid4 values drawn so far
    parse_calls,    \* number of parse_document calls made so far
    ingested        \* the bytes for which expand_ppt has answered 200 so far

storeVars == <<chunks, parse_calls, ingested>>
vars == <<documents, page_analysis, clock, lock, pc, loc, ret, calls, chunks, uuids,
          parse_calls, ingested>>

\* ------------------------------------------------------------ Python values
\* bool(v) for the values of the model
Truthy(v) == v \notin {"None", "{}", "[]", "''"}

\* json.dumps(v, ensure_ascii=False): the JSON text, a Python str
json_dumps(v) ==
    CASE v = "None" -> "'null'"
      [] v = "{}" -> "'{}'"
      [] v = "[]" -> "'[]'"
      [] v = "{'main_topic': 'A'}" -> "'{\"main_topic\": \"A\"}'"
      [] v = "{'notes': 'x'}" -> "'{\"notes\": \"x\"}'"
      [] v = "{'notes': 'y'}" -> "'{\"notes\": \"y\"}'"
      [] v = "[deckA]" -> "'[deckA]'"
      [] v = "[deckB]" -> "'[deckB]'"

\* json.loads(s)
json_loads(s) ==
    CASE s = "'null'" -> "None"
      [] s = "'{}'" -> "{}"
      [] s = "'[]'" -> "[]"
      [] s = "'{\"main_topic\": \"A\"}'" -> "{'main_topic': 'A'}"
      [] s = "'{\"notes\": \"x\"}'" -> "{'notes': 'x'}"
      [] s = "'{\"notes\": \"y\"}'" -> "{'notes': 'y'}"
      [] s = "'[deckA]'" -> "[deckA]"
      [] s = "'[deckB]'" -> "[deckB]"

\* str(uuid.uuid4()): the n-th value drawn; no two draws give the same value
Uuid4(n) == "u" \o ToString(n)

\* a handler result that is Python None
PyNone == [none |-> TRUE]

Idle == [op |-> "idle"]
NoRet == [op |-> "none"]

\* ------------------------------------------------------------------- SQLite
\* CREATE TABLE documents(doc_id TEXT PRIMARY KEY, ..., file_hash TEXT UNIQUE, ...):
\* the rows an INSERT of row would collide with
DocumentsConflict(table, row) ==
    {r \in table : r.doc_id = row.doc_id \/ r.file_hash = row.file_hash}

\* CREATE TABLE page_analysis(..., PRIMARY KEY (doc_id, page_id), FOREIGN KEY ...):
\* _connect never issues PRAGMA foreign_keys=ON, so the foreign key is not enforced
PageAnalysisConflict(table, row) ==
    {r \in table : r.doc_id = row.doc_id /\ r.page_id = row.page_id}

\* SELECT ... FROM documents WHERE file_hash=?
SelectByHash(table, h) == {r \in table : r.file_hash = h}
\* SELECT ... FROM documents WHERE doc_id=?
SelectById(table, d) == {r \in table : r.doc_id = d}
\* SELECT ... FROM page_analysis WHERE doc_id=? AND page_id=?
SelectPage(table, d, p) == {r \in table : r.doc_id = d /\ r.page_id = p}

\* _now(): datetime.now() read now; the wall clock has either not advanced since
\* the last reading or advanced by one unit
NowValues == {clock, clock + 1}

\* ------------------------------------------------------- PersistenceService
Init ==
    /\ documents = {}
    /\ page_analysis = {}
    /\ clock = 0
    /\ lock = "free"
    /\ pc = [w \in Workers |-> "idle"]
    /\ loc = [w \in Workers |-> Idle]
    /\ ret = [w \in Workers |-> NoRet]
    /\ calls = 0
    /\ chunks = {}
    /\ uuids = 0
    /\ parse_calls = 0
    /\ ingested = {}

\* a call is handed to the first idle worker, while the budget lasts
StartWithin(w, budget) ==
    /\ pc[w] = "idle"
    /\ \A v \in Workers : pc[v] = "idle" => ~WorkerBefore(v, w)
    /\ calls < budget
    /\ calls' = calls + 1

Start(w) == StartWithin(w, MaxCalls)

\* a worker finishes its call with outcome r
Finish(w, r) ==
    /\ pc' = [pc EXCEPT ![w] = "idle"]
    /\ loc' = [loc EXCEPT ![w] = Idle]
    /\ ret' = [ret EXCEPT ![w] = r]

\* the dict get_document_by_hash / get_document_by_id build from a row
DocumentDict(row) ==
    [doc_id |-> row.doc_id, file_name |-> row.file_name, file_type |-> row.file_type,
     file_hash |-> row.file_hash, slides_json |-> row.slides_json,
     global_analysis_json |-> row.global_analysis_json,
     created_at |-> row.created_at, updated_at |-> row.updated_at,
     slides |-> IF Truthy(row.slides_json) THEN json_loads(row.slides_json) ELSE "[]",
     global_analysis |-> IF Truthy(row.global_analysis_json)
                         THEN json_loads(row.global_analysis_json) ELSE "None"]

\* mutant: the lookup compares the hash with the doc_id column
get_document_by_hash_wrong_column(table, h) ==
    IF SelectById(table, h) = {} THEN {PyNone}
    ELSE {DocumentDict(r) : r \in SelectById(table, h)}

\* get_document_by_hash(file_hash): the values it can return on table
get_document_by_hash_value(table, h) ==
    IF SelectByHash(table, h) = {} THEN {PyNone}
    ELSE {DocumentDict(r) : r \in SelectByHash(table, h)}

\* get_document_by_id(doc_id): the values it can return on table
get_document_by_id_value(table, d) ==
    IF SelectById(table, d) = {} THEN {PyNone}
    ELSE {DocumentDict(r) : r \in SelectById(table, d)}

\* line 123: global_analysis_json = json.dumps(...) if global_analysis else None
upsert_document_global_analysis_json(global_analysis) ==
    IF Truthy(global_analysis) THEN json_dumps(global_analysis) ELSE "None"

\* mutant: the row is appended without looking at the rows the table holds
upsert_document_execute_append(table, existing, a) ==
    [table |-> table \cup {[doc_id |-> a.doc_id, file_name |-> a.file_name,
                            file_type |-> a.file_type, file_hash |-> a.file_hash,
                            slides_json |-> a.slides_json,
                            global_analysis_json |-> a.global_analysis_json,
                            created_at |-> a.now, updated_at |-> a.now]},
     error |-> "none"]

\* mutant: INSERT OR REPLACE, the row of the hash is recreated from the call
upsert_document_execute_replace(table, existing, a) ==
    [table |-> {r \in table : r.file_hash # a.file_hash}
               \cup {[doc_id |-> a.doc_id, file_name |-> a.file_name,
                      file_type |-> a.file_type, file_hash |-> a.file_hash,
                      slides_json |-> a.slides_json,
                      global_analysis_json |-> a.global_analysis_json,
                      created_at |-> a.now, updated_at |-> a.now]},
     error |-> "none"]

\* lines 128-154: the statement upsert_document executes, given the rows its SELECT
\* returned; [table, error]
upsert_document_execute(table, existing, a) ==
    LET row == [doc_id |-> a.doc_id, file_name |-> a.file_name, file_type |-> a.file_type,
                file_hash |-> a.file_hash, slides_json |-> a.slides_json,
                global_analysis_json |-> a.global_analysis_json,
                created_at |-> a.now, updated_at |-> a.now]
    IN IF existing # {}
       THEN IF Truthy(a.global_analysis_json)
            THEN [table |-> {IF r.file_hash = a.file_hash
                             THEN [r EXCEPT !.file_name = a.file_name,
                                            !.file_type = a.file_type,
                                            !.slides_json = a.slides_json,
                                            !.global_analysis_json = a.global_analysis_json,
                                            !.updated_at = a.now]
                             ELSE r : r \in table},
                  error |-> "none"]
            ELSE [table |-> {IF r.file_hash = a.file_hash
                             THEN [r EXCEPT !.file_name = a.file_name,
                                            !.file_type = a.file_type,
                                            !.slides_json = a.slides_json,
                                            !.updated_at = a.now]
                             ELSE r : r \in table},
                  error |-> "none"]
       ELSE IF DocumentsConflict(table, row) # {}
            THEN [table |-> table, error |-> "IntegrityError"]
            ELSE [table |-> table \cup {row}, error |-> "none"]

\* lines 122-124: the arguments are serialised and the time is read, before the lock
upsert_document_enter(w, doc_id, up, h, ga, caller) ==
    \E now \in NowValues :
      /\ clock' = now
      /\ pc' = [pc EXCEPT ![w] = "ud_lock"]
      /\ loc' = [loc EXCEPT ![w] =
                   [op |-> "upsert_document", caller |-> caller, doc_id |-> doc_id,
                    file_name |-> up.file_name, file_type |-> up.file_type,
                    file_hash |-> h, slides_json |-> json_dumps(up.slides),
                    global_analysis |-> ga,
                    global_analysis_json |-> upsert_document_global_analysis_json(ga),
                    now |-> now, existing |-> {}]]

\* doc_id is a token its caller has just generated (app.py line 368)
upsert_document(w, up, h, ga) ==
    /\ Start(w)
    /\ uuids' = uuids + 1
    /\ upsert_document_enter(w, Uuid4(uuids + 1), up, h, ga, "api")
    /\ UNCHANGED <<documents, page_analysis, lock, ret, storeVars>>

\* mutant: the SELECT runs without the lock being held by nobody else
upsert_document_select_no_lock(w) ==
    /\ pc[w] = "ud_lock"
    /\ lock' = w
    /\ pc' = [pc EXCEPT ![w] = "ud_write"]
    /\ loc' = [loc EXCEPT ![w].existing = SelectByHash(documents, loc[w].file_hash)]
    /\ UNCHANGED <<documents, page_analysis, clock, ret, calls, storeVars, uuids>>

\* lines 125-127: with self._lock, then SELECT doc_id FROM documents WHERE file_hash=?
upsert_document_select(w) ==
    /\ pc[w] = "ud_lock"
    /\ lock = "free"
    /\ lock' = w
    /\ pc' = [pc EXCEPT ![w] = "ud_write"]
    /\ loc' = [loc EXCEPT ![w].existing = SelectByHash(documents, loc[w].file_hash)]
    /\ UNCHANGED <<documents, page_analysis, clock, ret, calls, storeVars, uuids>>

\* what the caller of upsert_document gets back
upsert_document_result(a, error) ==
    [op |-> "upsert_document", error |-> error]

\* lines 128-155: UPDATE or INSERT, commit, and the lock is released
upsert_document_write(w) ==
    /\ pc[w] = "ud_write"
    /\ loc[w].caller = "api"
    /\ LET r == upsert_document_execute(documents, loc[w].existing, loc[w])
       IN /\ documents' = r.table
          /\ Finish(w, upsert_document_result(loc[w], r.error))
    /\ lock' = "free"
    /\ UNCHANGED <<page_analysis, clock, calls, storeVars, uuids>>

\* lines 157-171: UPDATE documents SET global_analysis_json=?, updated_at=? WHERE doc_id=?
update_global_analysis_execute(table, a) ==
    {IF r.doc_id = a.doc_id
     THEN [r EXCEPT !.global_analysis_json = a.global_analysis_json, !.updated_at = a.now]
     ELSE r : r \in table}

\* what the caller of update_global_analysis gets back: the number of rows the
\* UPDATE matched is never read, the call returns None whatever the table holds
update_global_analysis_result(table, a) ==
    [op |-> "update_global_analysis", error |-> "none"]

update_global_analysis(w, doc_id, ga) ==
    /\ Start(w)
    /\ \E now \in NowValues :
         /\ clock' = now
         /\ pc' = [pc EXCEPT ![w] = "uga_lock"]
         /\ loc' = [loc EXCEPT ![w] =
                      [op |-> "update_global_analysis", doc_id |-> doc_id,
                       global_analysis |-> ga,
                       global_analysis_json |-> json_dumps(ga), now |-> now]]
    /\ UNCHANGED <<documents, page_analysis, lock, ret, storeVars, uuids>>

\* with self._lock: the UPDATE and the commit; one statement, so the lock is taken
\* and released within the step
update_global_analysis_write(w) ==
    /\ pc[w] = "uga_lock"
    /\ lock = "free"
    /\ documents' = update_global_analysis_execute(documents, loc[w])
    /\ Finish(w, update_global_analysis_result(documents, loc[w]))
    /\ UNCHANGED <<page_analysis, clock, lock, calls, storeVars, uuids>>

\* the dict get_page_analysis / list_page_analyses build from a row: the stored
\* payload, with the key "_meta" added to it
PageAnalysisDict(row) ==
    [data |-> json_loads(row.analysis_json),
     _meta |-> [created_at |-> row.created_at, updated_at |-> row.updated_at]]

\* get_page_analysis(doc_id, page_id): the values it can return on table
get_page_analysis_value(table, d, p) ==
    IF SelectPage(table, d, p) = {} THEN {PyNone}
    ELSE {PageAnalysisDict(r) : r \in SelectPage(table, d, p)}

\* list_page_analyses(doc_id): the dict from page_id to analysis, a later row of
\* the same page_id replacing an earlier one
list_page_analyses_value(table, d) ==
    LET rows == {r \in table : r.doc_id = d}
        pages == {r.page_id : r \in rows}
    IN [p \in pages |-> PageAnalysisDict(CHOOSE r \in rows : r.page_id = p)]

get_page_analysis(w, d, p) ==
    /\ Start(w)
    /\ \E v \in get_page_analysis_value(page_analysis, d, p) :
         Finish(w, [op |-> "get_page_analysis", doc_id |-> d, page_id |-> p, value |-> v])
    /\ UNCHANGED <<documents, page_analysis, clock, lock, storeVars, uuids>>

list_page_analyses(w, d) ==
    /\ Start(w)
    /\ Finish(w, [op |-> "list_page_analyses", doc_id |-> d,
                  value |-> list_page_analyses_value(page_analysis, d)])
    /\ UNCHANGED <<documents, page_analysis, clock, lock, storeVars, uuids>>

\* mutant: the row is appended without looking at the rows the table holds
upsert_page_analysis_execute_append(table, existing, a) ==
    [table |-> table \cup {[doc_id |-> a.doc_id, page_id |-> a.page_id,
                            analysis_json |-> a.analysis_json,
                            created_at |-> a.now, updated_at |-> a.now]},
     error |-> "none"]

\* mutant: INSERT OR REPLACE, the row of the key is recreated from the call
upsert_page_analysis_execute_replace(table, existing, a) ==
    [table |-> {r \in table : ~(r.doc_id = a.doc_id /\ r.page_id = a.page_id)}
               \cup {[doc_id |-> a.doc_id, page_id |-> a.page_id,
                      analysis_json |-> a.analysis_json,
                      created_at |-> a.now, updated_at |-> a.now]},
     error |-> "none"]

\* lines 212-228: the statement upsert_page_analysis executes, given the rows its
\* SELECT returned; [table, error]
upsert_page_analysis_execute(table, existing, a) ==
    LET row == [doc_id |-> a.doc_id, page_id |-> a.page_id,
                analysis_json |-> a.analysis_json,
                created_at |-> a.now, updated_at |-> a.now]
    IN IF existing # {}
       THEN [table |-> {IF r.doc_id = a.doc_id /\ r.page_id = a.page_id
                        THEN [r EXCEPT !.analysis_json = a.analysis_json,
                                       !.updated_at = a.now]
                        ELSE r : r \in table},
             error |-> "none"]
       ELSE IF PageAnalysisConflict(table, row) # {}
            THEN [table |-> table, error |-> "IntegrityError"]
            ELSE [table |-> table \cup {row}, error |-> "none"]

\* lines 204-205: the time is read and the payload serialised, before the lock
upsert_page_analysis(w, doc_id, page_id, analysis) ==
    /\ Start(w)
    /\ \E now \in NowValues :
         /\ clock' = now
         /\ pc' = [pc EXCEPT ![w] = "upa_lock"]
         /\ loc' = [loc EXCEPT ![w] =
                      [op |-> "upsert_page_analysis", doc_id |-> doc_id,
                       page_id |-> page_id, analysis |-> analysis,
                       analysis_json |-> json_dumps(analysis), now |-> now,
                       existing |-> {}]]
    /\ UNCHANGED <<documents, page_analysis, lock, ret, storeVars, uuids>>

\* lines 206-211: with self._lock, then SELECT 1 FROM page_analysis WHERE ...
upsert_page_analysis_select(w) ==
    /\ pc[w] = "upa_lock"
    /\ lock = "free"
    /\ lock' = w
    /\ pc' = [pc EXCEPT ![w] = "upa_write"]
    /\ loc' = [loc EXCEPT ![w].existing =
                 SelectPage(page_analysis, loc[w].doc_id, loc[w].page_id)]
    /\ UNCHANGED <<documents, page_analysis, clock, ret, calls, storeVars, uuids>>

\* lines 212-229: UPDATE or INSERT, commit, and the lock is released
upsert_page_analysis_write(w) ==
    /\ pc[w] = "upa_write"
    /\ LET r == upsert_page_analysis_execute(page_analysis, loc[w].existing, loc[w])
       IN /\ page_analysis' = r.table
          /\ Finish(w, [op |-> "upsert_page_analysis", error |-> r.error,
                        doc_id |-> loc[w].doc_id, page_id |-> loc[w].page_id,
                        analysis |-> loc[w].analysis])
    /\ lock' = "free"
    /\ UNCHANGED <<documents, clock, calls, storeVars, uuids>>

\* ------------------------------------------ the documents table on its own
NextDocs ==
    \E w \in Workers :
      \/ \E up \in Uploads, h \in Hashes, ga \in GlobalAnalyses :
           upsert_document(w, up, h, ga)
      \/ upsert_document_select(w)
      \/ upsert_document_write(w)
      \/ \E d \in DocIds, ga \in GlobalAnalyses \ {"None"} : update_global_analysis(w, d, ga)
      \/ update_global_analysis_write(w)

SpecDocs == Init /\ [][NextDocs]_vars

\* --------------------------------------- the page_analysis table on its own
NextPages ==
    \E w \in Workers :
      \/ \E d \in DocIds, p \in PageIds, x \in Analyses : upsert_page_analysis(w, d, p, x)
      \/ upsert_page_analysis_select(w)
      \/ upsert_page_analysis_write(w)
      \/ \E d \in DocIds, p \in PageIds : get_page_analysis(w, d, p)
      \/ \E d \in DocIds : list_page_analyses(w, d)

SpecPages == Init /\ [][NextPages]_vars

\* ------------------------------------- the three writers of the cache together
\* upsert_document, update_global_analysis and upsert_page_analysis called by
\* concurrent threads on the one PersistenceService
NextWrites ==
    \E w \in Workers :
      \/ \E up \in Uploads, h \in Hashes : upsert_document(w, up, h, "None")
      \/ upsert_document_select(w)
      \/ upsert_document_write(w)
      \/ \E d \in DocIds : update_global_analysis(w, d, "{'main_topic': 'A'}")
      \/ update_global_analysis_write(w)
      \/ \E d \in DocIds, p \in PageIds : upsert_page_analysis(w, d, p, "{}")
      \/ upsert_page_analysis_select(w)
      \/ upsert_page_analysis_write(w)

SpecWrites == Init /\ [][NextWrites]_vars

\* ------------------------------------------------------------------- texts
\* A Python str that the store handles character by character is a sequence of
\* one-character strings.
Rep(c, n) == [i \in 1..n |-> c]

IsSpace(c) == c \in {" ", "\n", "\t"}

RECURSIVE LStrip(_)
LStrip(t) == IF t = <<>> THEN <<>>
             ELSE IF IsSpace(Head(t)) THEN LStrip(Tail(t)) ELSE t

RECURSIVE RStrip(_)
RStrip(t) == IF t = <<>> THEN <<>>
             ELSE IF IsSpace(t[Len(t)]) THEN RStrip(SubSeq(t, 1, Len(t) - 1)) ELSE t

\* str.strip()
Strip(t) == RStrip(LStrip(t))

\* "\n".join(parts)
RECURSIVE JoinLines(_)
JoinLines(parts) ==
    IF parts = <<>> THEN <<>>
    ELSE IF Len(parts) = 1 THEN parts[1]
    ELSE parts[1] \o <<"\n">> \o JoinLines(Tail(parts))

\* text.split('\n')
RECURSIVE SplitLines(_)
SplitLines(t) ==
    IF \A i \in 1..Len(t) : t[i] # "\n" THEN <<t>>
    ELSE LET k == CHOOSE i \in 1..Len(t) :
                    t[i] = "\n" /\ \A j \in 1..(i - 1) : t[j] # "\n"
         IN <<SubSeq(t, 1, k - 1)>> \o SplitLines(SubSeq(t, k + 1, Len(t)))

\* ------------------------------------------------------ VectorStoreService
\* lines 134-145: the text parts the points of a slide contribute
RECURSIVE PointParts(_)
PointParts(points) ==
    IF points = <<>> THEN <<>>
    ELSE LET text == Strip(Head(points).text)
             indent == Rep(" ", 2 * Head(points).level)
         IN (IF text # <<>> THEN <<indent \o text>> ELSE <<>>) \o PointParts(Tail(points))

\* _extract_slide_text(slide)
_extract_slide_text(slide) ==
    LET title == Strip(slide.title)
    IN JoinLines((IF title # <<>> THEN <<title>> ELSE <<>>) \o PointParts(slide.raw_points))

\* lines 175-189: the greedy packing of lines into chunks; current_chunk is the
\* list of lines of the chunk being filled, current_length its running length
RECURSIVE PackLines(_, _, _, _, _)
PackLines(lines, max_chars, chunks_, current_chunk, current_length) ==
    IF lines = <<>>
    THEN IF current_chunk # <<>> THEN Append(chunks_, JoinLines(current_chunk)) ELSE chunks_
    ELSE LET line == Head(lines)
             line_length == Len(line) + 1
         IN IF current_length + line_length > max_chars /\ current_chunk # <<>>
            THEN PackLines(Tail(lines), max_chars, Append(chunks_, JoinLines(current_chunk)),
                           <<line>>, line_length)
            ELSE PackLines(Tail(lines), max_chars, chunks_,
                           Append(current_chunk, line), current_length + line_length)

\* mutant: only the first max_chars characters of an over-long chunk are kept
HardSplit_first_piece(chunk, max_chars) == <<SubSeq(chunk, 1, max_chars)>>

\* lines 196-197: chunk[i:i + max_chars] for i in range(0, len(chunk), max_chars)
RECURSIVE HardSplit(_, _)
HardSplit(chunk, max_chars) ==
    IF Len(chunk) <= max_chars THEN <<chunk>>
    ELSE <<SubSeq(chunk, 1, max_chars)>>
         \o HardSplit(SubSeq(chunk, max_chars + 1, Len(chunk)), max_chars)

\* mutant: no chunk is cut
FinalChunks_no_cut(chunks_, max_chars) == chunks_

\* lines 192-199: chunks longer than max_chars are cut, the others kept
RECURSIVE FinalChunks(_, _)
FinalChunks(chunks_, max_chars) ==
    IF chunks_ = <<>> THEN <<>>
    ELSE (IF Len(Head(chunks_)) > max_chars
          THEN HardSplit(Head(chunks_), max_chars)
          ELSE <<Head(chunks_)>>) \o FinalChunks(Tail(chunks_), max_chars)

\* _split_text_for_embedding(text, max_tokens)
_split_text_for_embedding(text, max_tokens) ==
    LET max_chars == max_tokens * 3
    IN IF Len(text) <= max_chars THEN <<text>>
       ELSE FinalChunks(PackLines(SplitLines(text), max_chars, <<>>, <<>>, 0), max_chars)

\* the slides of the parsed decks: {page_num, title, raw_points: [{text, level}]}
Slides(deck) ==
    CASE deck = "[deckA]" ->
           <<[page_num |-> 1, title |-> <<" ">> \o Rep("a", 12),
              raw_points |-> <<[text |-> Rep("b", 4) \o <<" ">>, level |-> 1]>>],
             [page_num |-> 2, title |-> Rep("c", 3), raw_points |-> <<>>],
             [page_num |-> 3, title |-> Rep("d", 10), raw_points |-> <<>>]>>
      [] deck = "[deckB]" ->
           <<[page_num |-> 1, title |-> Rep("e", 11), raw_points |-> <<>>]>>
      \* a deck of long pages: page 1 is 4 lines of 1513 characters, page 2 one
      \* line of 2500, page 3 has 5 characters once stripped, pages 4 and 5 are short
      [] deck = "[deckL]" ->
           <<[page_num |-> 1, title |-> Rep("t", 10),
              raw_points |-> <<[text |-> Rep("p", 500), level |-> 0],
                               [text |-> Rep("q", 500), level |-> 0],
                               [text |-> Rep("r", 500), level |-> 0]>>],
             [page_num |-> 2, title |-> Rep("x", 2500), raw_points |-> <<>>],
             [page_num |-> 3, title |-> Rep(" ", 3) \o Rep("s", 5) \o Rep(" ", 4),
              raw_points |-> <<[text |-> Rep(" ", 2), level |-> 2]>>],
             [page_num |-> 4, title |-> Rep("u", 6),
              raw_points |-> <<[text |-> Rep("v", 1), level |-> 1]>>],
             [page_num |-> 5, title |-> Rep("w", 10), raw_points |-> <<>>]>>
      [] deck = "[]" -> <<>>

max_tokens == 400
min_text_len == 10
batch_size == 5

\* mutant: chunk_index counts from 1
SlideChunks_index_from_one(slide, file_name, file_type) ==
    LET text_chunks == _split_text_for_embedding(_extract_slide_text(slide), max_tokens)
    IN [chunk_idx \in 1..Len(text_chunks) |->
          [page_content |-> text_chunks[chunk_idx],
           metadata |-> [file_name |-> file_name, file_type |-> file_type,
                         page_num |-> slide.page_num,
                         chunk_index |-> chunk_idx,
                         total_chunks |-> Len(text_chunks)]]]

\* lines 252-271: the documents of one slide, one per chunk of its text
SlideChunks(slide, file_name, file_type) ==
    LET text_chunks == _split_text_for_embedding(_extract_slide_text(slide), max_tokens)
    IN [chunk_idx \in 1..Len(text_chunks) |->
          [page_content |-> text_chunks[chunk_idx],
           metadata |-> [file_name |-> file_name, file_type |-> file_type,
                         page_num |-> slide.page_num,
                         chunk_index |-> chunk_idx - 1,
                         total_chunks |-> Len(text_chunks)]]]

\* lines 232-273: the list `documents` store_document_slides builds; a slide whose
\* stripped text has fewer than 10 characters contributes nothing
RECURSIVE SlideDocuments(_, _, _)
SlideDocuments(slides, file_name, file_type) ==
    IF slides = <<>> THEN <<>>
    ELSE LET slide_text == _extract_slide_text(Head(slides))
         IN (IF slide_text = <<>> \/ Len(Strip(slide_text)) < min_text_len
             THEN <<>>
             ELSE SlideChunks(Head(slides), file_name, file_type))
            \o SlideDocuments(Tail(slides), file_name, file_type)

\* line 253: the id of the k-th document; the uuid4 suffix is the number of the draw
ChunkId(doc, suffix) ==
    [file_name |-> doc.metadata.file_name, page_num |-> doc.metadata.page_num,
     chunk_index |-> doc.metadata.chunk_index, suffix |-> suffix]

\* mutant: a batch whose add_documents raises ends the call's inserts
RECURSIVE StoredPositions_abort(_, _, _)
StoredPositions_abort(i, n, bad) ==
    IF i >= n THEN {}
    ELSE LET last == IF i + batch_size < n THEN i + batch_size ELSE n
             batch == (i + 1)..last
         IN IF batch \cap bad = {}
            THEN batch \cup StoredPositions_abort(i + batch_size, n, bad)
            ELSE {}

\* lines 282-311: the positions of `documents` that end up in the collection when
\* the backend refuses every request that contains a position of bad: a batch
\* whose add_documents raises is retried document by document
RECURSIVE StoredPositions(_, _, _)
StoredPositions(i, n, bad) ==
    IF i >= n THEN {}
    ELSE LET last == IF i + batch_size < n THEN i + batch_size ELSE n
             batch == (i + 1)..last
         IN (IF batch \cap bad = {} THEN batch ELSE {k \in batch : {k} \cap bad = {}})
            \cup StoredPositions(i + batch_size, n, bad)

\* the Chroma documents that store_document_slides adds
StoredChunks(docs, first_suffix, bad) ==
    {[id |-> ChunkId(docs[k], first_suffix + k), page_content |-> docs[k].page_content,
      metadata |-> docs[k].metadata] : k \in StoredPositions(0, Len(docs), bad)}

\* collection.get(where={"file_name": file_name})
GetWhereFile(store, file_name) == {c \in store : c.metadata.file_name = file_name}

\* search_by_file(file_name) on a store in the given condition
search_by_file_value(store, file_name, backend) ==
    IF backend = "uninit" THEN {}
    ELSE IF backend = "get_raises" THEN {}
    ELSE {[content |-> c.page_content, metadata |-> c.metadata] :
            c \in GetWhereFile(store, file_name)}

\* mutant: only one of the ids found is deleted
delete_file_slides_one_id(store, file_name, backend) ==
    IF backend # "ok" \/ GetWhereFile(store, file_name) = {}
    THEN [store |-> store, success |-> FALSE]
    ELSE [store |-> store \ {CHOOSE c \in GetWhereFile(store, file_name) : TRUE},
          success |-> TRUE]

\* delete_file_slides(file_name) on a store in the given condition: [store, success]
delete_file_slides_value(store, file_name, backend) ==
    IF backend = "uninit" THEN [store |-> store, success |-> FALSE]
    ELSE IF backend = "get_raises" THEN [store |-> store, success |-> FALSE]
    ELSE IF GetWhereFile(store, file_name) = {} THEN [store |-> store, success |-> FALSE]
    ELSE IF backend = "delete_raises" THEN [store |-> store, success |-> FALSE]
    ELSE [store |-> store \ GetWhereFile(store, file_name), success |-> TRUE]

\* ------------------------------------------------------------------ app.py
\* uploaded files: a name and the bytes; "copy.pdf" has the bytes of "a.pdf"
Files == {[file_name |-> "a.pdf", bytes |-> "b1"],
          [file_name |-> "copy.pdf", bytes |-> "b1"],
          [file_name |-> "b.pptx", bytes |-> "b2"]}
FileNames == {f.file_name : f \in Files}

\* PersistenceService.sha256_file: distinct bytes have distinct digests
sha256_file(bytes) == CASE bytes = "b1" -> "h1" [] bytes = "b2" -> "h2"

\* ensure_supported_ext(filename), then ext[1:]
FileType(file_name) == IF file_name = "b.pptx" THEN "pptx" ELSE "pdf"

\* parser.parse_document(tmp_path, ext)
parse_document(bytes) == CASE bytes = "b1" -> "[deckA]" [] bytes = "b2" -> "[deckB]"

\* The handlers of app.py are `async def` and do not await once the upload is
\* saved: the event loop runs one handler to its response before the next.
StartRequest(w) ==
    /\ StartWithin(w, MaxRequests)
    /\ \A v \in Workers : pc[v] = "idle"

\* lines 347-352: the response of expand_ppt when the hash is in the cache
expand_ppt_cached(existing_doc, file_hash) ==
    [op |-> "expand_ppt", status |-> 200, doc_id |-> existing_doc.doc_id,
     file_hash |-> file_hash, slides |-> existing_doc.slides, cached |-> TRUE]

\* mutant: the result of the lookup is not used, every upload is processed
expand_ppt_no_short_circuit(w, f) ==
    /\ StartRequest(w)
    /\ pc' = [pc EXCEPT ![w] = "ing_store"]
    /\ loc' = [loc EXCEPT ![w] =
                 [op |-> "expand_ppt", file_name |-> f.file_name,
                  bytes |-> f.bytes, file_hash |-> sha256_file(f.bytes)]]
    /\ UNCHANGED <<documents, page_analysis, clock, lock, chunks, parse_calls, uuids,
                   ret, ingested>>

\* lines 343-352: the hash of the upload is looked up; a hit returns at once
expand_ppt(w, f) ==
    /\ StartRequest(w)
    /\ LET file_hash == sha256_file(f.bytes)
       IN \E existing_doc \in get_document_by_hash_value(documents, file_hash) :
            IF existing_doc # PyNone
            THEN /\ Finish(w, expand_ppt_cached(existing_doc, file_hash))
                 /\ ingested' = ingested \cup {f.bytes}
            ELSE /\ pc' = [pc EXCEPT ![w] = "ing_store"]
                 /\ loc' = [loc EXCEPT ![w] =
                              [op |-> "expand_ppt", file_name |-> f.file_name,
                               bytes |-> f.bytes, file_hash |-> file_hash]]
                 /\ UNCHANGED <<ret, ingested>>
    /\ UNCHANGED <<documents, page_analysis, clock, lock, chunks, parse_calls, uuids>>

\* store_document_slides(file_name, file_type, slides) on a store in the given
\* condition: [store, raised, total_chunks]
store_document_slides_value(store, file_name, file_type, slides, first_suffix, backend, bad) ==
    IF backend = "uninit"
    THEN [store |-> store, raised |-> TRUE, total_chunks |-> 0]
    ELSE LET docs == SlideDocuments(Slides(slides), file_name, file_type)
             added == StoredChunks(docs, first_suffix, bad)
         IN [store |-> store \cup added, raised |-> FALSE,
             total_chunks |-> Cardinality(added)]

\* the subsets of positions 1..n the embedding backend may refuse
BadSets(n) == SUBSET (1..n)

\* lines 354-365: the file is parsed and its slides are stored; an exception of
\* the store is printed and swallowed
expand_ppt_store(w) ==
    /\ pc[w] = "ing_store"
    /\ LET slides == parse_document(loc[w].bytes)
           file_type == FileType(loc[w].file_name)
           n == Len(SlideDocuments(Slides(slides), loc[w].file_name, file_type))
       IN \E backend \in {"ok", "uninit"}, bad \in BadSets(n) :
            /\ backend = "uninit" => bad = {}
            /\ LET r == store_document_slides_value(chunks, loc[w].file_name, file_type,
                                                    slides, uuids, backend, bad)
               IN /\ chunks' = r.store
                  /\ uuids' = IF r.raised THEN uuids ELSE uuids + n
                  /\ loc' = [loc EXCEPT ![w] =
                               [op |-> "expand_ppt", file_name |-> loc[w].file_name,
                                bytes |-> loc[w].bytes, file_hash |-> loc[w].file_hash,
                                slides |-> slides, file_type |-> file_type,
                                store_raised |-> r.raised,
                                total_chunks |-> r.total_chunks]]
    /\ parse_calls' = parse_calls + 1
    /\ pc' = [pc EXCEPT ![w] = "ing_upsert"]
    /\ UNCHANGED <<documents, page_analysis, clock, lock, ret, calls, ingested>>

\* lines 368-376: a fresh doc_id is drawn and upsert_document is entered
expand_ppt_upsert(w) ==
    /\ pc[w] = "ing_upsert"
    /\ uuids' = uuids + 1
    /\ \E now \in NowValues :
         /\ clock' = now
         /\ pc' = [pc EXCEPT ![w] = "ud_lock"]
         /\ loc' = [loc EXCEPT ![w] =
                      [op |-> "upsert_document", caller |-> "expand_ppt",
                       doc_id |-> Uuid4(uuids + 1),
                       file_name |-> loc[w].file_name, file_type |-> loc[w].file_type,
                       file_hash |-> loc[w].file_hash,
                       slides_json |-> json_dumps(loc[w].slides),
                       global_analysis |-> "None",
                       global_analysis_json |-> upsert_document_global_analysis_json("None"),
                       now |-> now, existing |-> {}, bytes |-> loc[w].bytes,
                       slides |-> loc[w].slides, store_raised |-> loc[w].store_raised,
                       total_chunks |-> loc[w].total_chunks]]
    /\ UNCHANGED <<documents, page_analysis, lock, ret, calls, storeVars>>

\* lines 378-390: the response of expand_ppt after upsert_document
expand_ppt_response(a, error) ==
    IF error # "none"
    THEN [op |-> "expand_ppt", status |-> 500, error |-> error]
    ELSE [op |-> "expand_ppt", status |-> 200, doc_id |-> a.doc_id,
          file_hash |-> a.file_hash, slides |-> a.slides,
          vector_store |-> [stored |-> TRUE,
                            total_chunks |-> IF a.store_raised THEN 0 ELSE a.total_chunks]]

\* upsert_document writes and returns to expand_ppt, which responds
expand_ppt_return(w) ==
    /\ pc[w] = "ud_write"
    /\ loc[w].caller = "expand_ppt"
    /\ LET r == upsert_document_execute(documents, loc[w].existing, loc[w])
       IN /\ documents' = r.table
          /\ Finish(w, expand_ppt_response(loc[w], r.error))
          /\ ingested' = IF r.error = "none" THEN ingested \cup {loc[w].bytes}
                         ELSE ingested
    /\ lock' = "free"
    /\ UNCHANGED <<page_analysis, clock, calls, chunks, parse_calls, uuids>>

\* the conditions a VectorStoreService built for a request can be in when a query
\* by file is made: initialised and answering, not initialised, or get() raising
GetBackends == {"ok", "uninit", "get_raises"}
DeleteBackends == GetBackends \cup {"delete_raises"}

\* GET /api/v1/vector-store/file/{file_name}
search_by_file(w, file_name) ==
    /\ StartRequest(w)
    /\ \E backend \in GetBackends :
         Finish(w, [op |-> "search_by_file", file_name |-> file_name,
                    chunks |-> search_by_file_value(chunks, file_name, backend)])
    /\ UNCHANGED <<documents, page_analysis, clock, lock, storeVars, uuids>>

\* DELETE /api/v1/vector-store/file/{file_name}
delete_file_slides(w, file_name) ==
    /\ StartRequest(w)
    /\ \E backend \in DeleteBackends :
         LET r == delete_file_slides_value(chunks, file_name, backend)
         IN /\ chunks' = r.store
            /\ Finish(w, [op |-> "delete_file_slides", file_name |-> file_name,
                          backend |-> backend, success |-> r.success])
    /\ UNCHANGED <<documents, page_analysis, clock, lock, uuids, parse_calls, ingested>>

Next ==
    \E w \in Workers :
      \/ \E f \in Files : expand_ppt(w, f)
      \/ expand_ppt_store(w)
      \/ expand_ppt_upsert(w)
      \/ upsert_document_select(w)
      \/ expand_ppt_return(w)
      \/ \E file_name \in FileNames : search_by_file(w, file_name)
      \/ \E file_name \in FileNames : delete_file_slides(w, file_name)

Spec == Init /\ [][Next]_vars

\* ------------------------------------------- expand_ppt served concurrently
\* The same handler when requests are served by more than one thread or server
\* process over the one SQLite file and the one Chroma directory: a second
\* request may look its hash up before the first has written its Document.
\* Lines 343-352 as in expand_ppt, without waiting for the other worker.
expand_ppt_concurrent(w, f) ==
    /\ StartWithin(w, MaxCalls)
    /\ LET file_hash == sha256_file(f.bytes)
       IN \E existing_doc \in get_document_by_hash_value(documents, file_hash) :
            IF existing_doc # PyNone
            THEN /\ Finish(w, expand_ppt_cached(existing_doc, file_hash))
                 /\ ingested' = ingested \cup {f.bytes}
            ELSE /\ pc' = [pc EXCEPT ![w] = "ing_store"]
                 /\ loc' = [loc EXCEPT ![w] =
                              [op |-> "expand_ppt", file_name |-> f.file_name,
                               bytes |-> f.bytes, file_hash |-> file_hash]]
                 /\ UNCHANGED <<ret, ingested>>
    /\ UNCHANGED <<documents, page_analysis, clock, lock, chunks, parse_calls, uuids>>

\* uploads of the same bytes, under the same name or another
SameBytesFiles == {f \in Files : f.bytes = "b1"}

NextIngest ==
    \E w \in Workers :
      \/ \E f \in SameBytesFiles : expand_ppt_concurrent(w, f)
      \/ expand_ppt_store(w)
      \/ expand_ppt_upsert(w)
      \/ upsert_document_select(w)
      \/ expand_ppt_return(w)

SpecIngest == Init /\ [][NextIngest]_vars

\* ------------------------------------------------ POST /api/v1/analyze-page
\* PageAnalysisRequest: doc_id is Optional[str], force is Optional[bool]
AnalyzeRequests ==
    [doc_id : {"None", "u1"}, page_id : PageIds, force : BOOLEAN]

\* what PageDeepAnalysisService.analyze_page can do: return a result, whose
\* fields make the payload, or raise
AnalysisOutcomes == {"{'notes': 'x'}", "{'notes': 'y'}", "raises"}

\* what analyze_page answers, with the number of calls it made to the service;
\* data is the payload, which has the key "_meta" when it comes from the table
analyze_page_response(request, status, cached, data, service_calls) ==
    [op |-> "analyze_page", doc_id |-> request.doc_id, page_id |-> request.page_id,
     force |-> request.force, status |-> status, cached |-> cached, data |-> data,
     service_calls |-> service_calls]

\* mutant: the stored analysis is looked up whatever force says
analyze_page_force_ignored(w, request) ==
    /\ StartRequest(w)
    /\ \E cached \in (IF Truthy(request.doc_id)
                      THEN get_page_analysis_value(page_analysis, request.doc_id,
                                                   request.page_id)
                      ELSE {PyNone}) :
         IF cached # PyNone
         THEN /\ Finish(w, analyze_page_response(request, 200, TRUE, cached, 0))
         ELSE /\ pc' = [pc EXCEPT ![w] = "ap_service"]
              /\ loc' = [loc EXCEPT ![w] =
                           [op |-> "analyze_page", doc_id |-> request.doc_id,
                            page_id |-> request.page_id, force |-> request.force]]
              /\ UNCHANGED ret
    /\ UNCHANGED <<documents, page_analysis, clock, lock, storeVars, uuids>>

\* lines 411-415: with a doc_id and without force the stored analysis is looked
\* up, and returned when there is one
analyze_page(w, request) ==
    /\ StartRequest(w)
    /\ \E cached \in (IF Truthy(request.doc_id) /\ ~request.force
                      THEN get_page_analysis_value(page_analysis, request.doc_id,
                                                   request.page_id)
                      ELSE {PyNone}) :
         IF cached # PyNone
         THEN /\ Finish(w, analyze_page_response(request, 200, TRUE, cached, 0))
         ELSE /\ pc' = [pc EXCEPT ![w] = "ap_service"]
              /\ loc' = [loc EXCEPT ![w] =
                           [op |-> "analyze_page", doc_id |-> request.doc_id,
                            page_id |-> request.page_id, force |-> request.force]]
              /\ UNCHANGED ret
    /\ UNCHANGED <<documents, page_analysis, clock, lock, storeVars, uuids>>

\* lines 417-450: the service is called; its result is saved by
\* upsert_page_analysis when the request has a doc_id, and returned; an
\* exception gives the 500 response. The handler does not await, so the lock is
\* free and no other call runs between the SELECT and the commit.
analyze_page_service(w) ==
    /\ pc[w] = "ap_service"
    /\ lock = "free"
    /\ \E outcome \in AnalysisOutcomes, now \in NowValues :
         IF outcome = "raises"
         THEN /\ Finish(w, analyze_page_response(loc[w], 500, FALSE, PyNone, 1))
              /\ UNCHANGED <<page_analysis, clock>>
         ELSE /\ Finish(w, analyze_page_response(loc[w], 200, FALSE,
                                                   [data |-> outcome], 1))
              /\ IF Truthy(loc[w].doc_id)
                 THEN /\ clock' = now
                      /\ page_analysis' =
                           upsert_page_analysis_execute(
                             page_analysis,
                             SelectPage(page_analysis, loc[w].doc_id, loc[w].page_id),
                             [doc_id |-> loc[w].doc_id, page_id |-> loc[w].page_id,
                              analysis_json |-> json_dumps(outcome), now |-> now]).table
                 ELSE UNCHANGED <<page_analysis, clock>>
    /\ UNCHANGED <<documents, lock, calls, storeVars, uuids>>

NextAnalyze ==
    \E w \in Workers :
      \/ \E request \in AnalyzeRequests : analyze_page(w, request)
      \/ analyze_page_service(w)

SpecAnalyze == Init /\ [][NextAnalyze]_vars

\* ------------------------------------------- chunking and storing on their own
\* the texts _split_text_for_embedding is called with: lines of "a" and "b"
TextAlphabet == {"a", "b", "\n"}
Texts == UNION {[1..n -> TextAlphabet] : n \in 0..MaxLen}

\* one call of _split_text_for_embedding(text, max_tokens)
SplitCalls ==
    {[op |-> "_split_text_for_embedding", text |-> text, max_tokens |-> m] :
       text \in Texts, m \in 1..MaxTokens}

\* one call of store_document_slides(file_name, file_type, slides) with the store
\* in a given condition and a set of positions of `documents` the backend refuses
StoreUploads == Uploads \cup {[file_name |-> "long.pdf", file_type |-> "pdf",
                               slides |-> "[deckL]"]}
StoreCalls ==
    {[op |-> "store_document_slides", file_name |-> up.file_name,
      file_type |-> up.file_type, slides |-> up.slides, backend |-> backend,
      bad |-> bad] :
       up \in StoreUploads, backend \in {"ok", "uninit"}, bad \in BadSets(7)}

\* a service with one call about to run
InitChunk ==
    /\ documents = {}
    /\ page_analysis = {}
    /\ clock = 0
    /\ lock = "free"
    /\ \E call \in SplitCalls \cup StoreCalls :
         /\ call.op = "store_document_slides" =>
              /\ call.bad \subseteq
                   1..Len(SlideDocuments(Slides(call.slides), call.file_name,
                                         call.file_type))
              /\ call.backend = "uninit" => call.bad = {}
         /\ loc = [w \in Workers |-> IF w = "w1" THEN call ELSE Idle]
    /\ pc = [w \in Workers |-> IF w = "w1" THEN "call" ELSE "idle"]
    /\ ret = [w \in Workers |-> NoRet]
    /\ calls = 1
    /\ chunks = {}
    /\ uuids = 0
    /\ parse_calls = 0
    /\ ingested = {}

\* _split_text_for_embedding(text, max_tokens) returns
split_text_for_embedding(w) ==
    /\ pc[w] = "call"
    /\ loc[w].op = "_split_text_for_embedding"
    /\ Finish(w, [op |-> "_split_text_for_embedding", text |-> loc[w].text,
                  max_tokens |-> loc[w].max_tokens,
                  value |-> _split_text_for_embedding(loc[w].text, loc[w].max_tokens)])
    /\ UNCHANGED <<documents, page_analysis, clock, lock, calls, storeVars, uuids>>

\* store_document_slides(file_name, file_type, slides) runs and returns or raises
store_document_slides(w) ==
    /\ pc[w] = "call"
    /\ loc[w].op = "store_document_slides"
    /\ LET a == loc[w]
           n == Len(SlideDocuments(Slides(a.slides), a.file_name, a.file_type))
           r == store_document_slides_value(chunks, a.file_name, a.file_type, a.slides,
                                            uuids, a.backend, a.bad)
       IN /\ chunks' = r.store
          /\ uuids' = IF r.raised THEN uuids ELSE uuids + n
          /\ Finish(w, [op |-> "store_document_slides", file_name |-> a.file_name,
                        file_type |-> a.file_type, slides |-> a.slides,
                        backend |-> a.backend, bad |-> a.bad, raised |-> r.raised,
                        total_chunks |-> r.total_chunks])
    /\ UNCHANGED <<documents, page_analysis, clock, lock, calls, parse_calls, ingested>>

NextChunk ==
    \E w \in Workers :
      \/ split_text_for_embedding(w)
      \/ store_document_slides(w)

SpecChunk == InitChunk /\ [][NextChunk]_vars

\* ------------------------------------------- storing a file more than once
\* lines 219-224, then the rest of store_document_slides: with overwrite the
\* chunks of the file are deleted first by delete_file_slides, whose result (False
\* when get() or delete() raised) is not read
store_document_slides_overwrite_value(store, file_name, file_type, slides, first_suffix, backend, bad, overwrite, delete_backend) ==
    IF backend = "uninit"
    THEN store_document_slides_value(store, file_name, file_type, slides, first_suffix,
                                     backend, bad)
    ELSE LET cleared == IF overwrite
                        THEN delete_file_slides_value(store, file_name,
                                                      delete_backend).store
                        ELSE store
         IN store_document_slides_value(cleared, file_name, file_type, slides,
                                        first_suffix, backend, bad)

\* the conditions the collection can be in when delete_file_slides is called on
\* an initialised service
OverwriteBackends == DeleteBackends \ {"uninit"}

\* store_document_slides(file_name, file_type, slides, overwrite=overwrite) on the
\* store that earlier calls have left
store_document_slides_overwrite(w, up, overwrite) ==
    /\ StartWithin(w, MaxRequests)
    /\ LET docs == SlideDocuments(Slides(up.slides), up.file_name, up.file_type)
           n == Len(docs)
       IN \E backend \in {"ok", "uninit"}, bad \in BadSets(n),
             delete_backend \in OverwriteBackends :
            /\ backend = "uninit" => (bad = {} /\ delete_backend = "ok")
            /\ ~overwrite => delete_backend = "ok"
            /\ LET r == store_document_slides_overwrite_value(
                          chunks, up.file_name, up.file_type, up.slides, uuids,
                          backend, bad, overwrite, delete_backend)
               IN /\ chunks' = r.store
                  /\ uuids' = IF r.raised THEN uuids ELSE uuids + n
                  /\ Finish(w, [op |-> "store_document_slides",
                                file_name |-> up.file_name, file_type |-> up.file_type,
                                slides |-> up.slides, overwrite |-> overwrite,
                                backend |-> backend, delete_backend |-> delete_backend,
                                bad |-> bad, raised |-> r.raised,
                                total_chunks |-> r.total_chunks,
                                before |-> chunks,
                                added |-> IF r.raised THEN {}
                                          ELSE StoredChunks(docs, uuids, bad)])
    /\ UNCHANGED <<documents, page_analysis, clock, lock, parse_calls, ingested>>

NextOverwrite ==
    \E w \in Workers, up \in Uploads, overwrite \in BOOLEAN :
      store_document_slides_overwrite(w, up, overwrite)

SpecOverwrite == Init /\ [][NextOverwrite]_vars

\* ------------------------------------------------------------ str methods
\* str.lower() on the characters of the model
LowerChar(c) == CASE c = "A" -> "a" [] c = "B" -> "b" [] OTHER -> c
Lower(t) == [i \in 1..Len(t) |-> LowerChar(t[i])]

\* t[i:i + len(q)] == q
MatchesAt(t, q, i) == i + Len(q) - 1 <= Len(t) /\ SubSeq(t, i, i + Len(q) - 1) = q

\* q in t
Contains(t, q) == \E i \in 1..(Len(t) + 1) : MatchesAt(t, q, i)

\* t.count(q): the occurrences of q in t that do not overlap, from the left
RECURSIVE CountFrom(_, _, _)
CountFrom(t, q, i) ==
    IF i + Len(q) - 1 > Len(t) THEN 0
    ELSE IF MatchesAt(t, q, i)
         THEN 1 + CountFrom(t, q, IF q = <<>> THEN i + 1 ELSE i + Len(q))
         ELSE CountFrom(t, q, i + 1)
Count(t, q) == CountFrom(t, q, 1)

\* t.split(): the words between runs of whitespace
RECURSIVE SplitWords(_, _)
SplitWords(t, word) ==
    IF t = <<>> THEN (IF word = <<>> THEN <<>> ELSE <<word>>)
    ELSE IF IsSpace(Head(t))
         THEN (IF word = <<>> THEN <<>> ELSE <<word>>) \o SplitWords(Tail(t), <<>>)
         ELSE SplitWords(Tail(t), Append(word, Head(t)))

\* max(lo, min(hi, v))
Clamp(lo, hi, v) == IF v < lo THEN lo ELSE IF v > hi THEN hi ELSE v
Min(a, b) == IF a < b THEN a ELSE b
Max(a, b) == IF a > b THEN a ELSE b

\* the sum of f over a finite set
RECURSIVE SumOver(_, _)
SumOver(S, f) ==
    IF S = {} THEN 0
    ELSE LET x == CHOOSE y \in S : TRUE IN f[x] + SumOver(S \ {x}, f)

\* list.sort(key=..., reverse=True) on a list of [item, key] pairs with integer
\* keys: a stable sort, elements of equal keys keep their order
RECURSIVE InsertSorted(_, _)
InsertSorted(sorted, x) ==
    IF sorted = <<>> THEN <<x>>
    ELSE IF x.key > Head(sorted).key THEN <<x>> \o sorted
    ELSE <<Head(sorted)>> \o InsertSorted(Tail(sorted), x)

RECURSIVE SortReverse(_)
SortReverse(pairs) ==
    IF pairs = <<>> THEN <<>>
    ELSE InsertSorted(SortReverse(SubSeq(pairs, 1, Len(pairs) - 1)), pairs[Len(pairs)])

\* the items of a list sorted by key(item), greatest first
SortedByKey(list, key) ==
    LET sorted == SortReverse([i \in 1..Len(list) |-> [item |-> list[i], key |-> key[i]]])
    IN [i \in 1..Len(list) |-> sorted[i].item]

\* list[:k]
Prefix(list, k) == SubSeq(list, 1, Min(k, Len(list)))

\* --------------------------------------------- VectorStoreService: searching
\* Scores and distances are counted in hundredths: 40 is 0.4, a cosine distance
\* of 2.0 is 200.

\* line 416-417: similarity = max(0.0, min(1.0, 1.0 - distance / 2.0))
similarity_of(distance) == Clamp(0, 100, 100 - distance \div 2)

\* lines 406-410: the keywords of a query
query_lower_of(query) == Strip(Lower(query))
query_keywords_of(query) ==
    LET words == SplitWords(query_lower_of(query), <<>>)
    IN {words[i] : i \in 1..Len(words)}
         \cup (IF Len(query_lower_of(query)) >= 2 THEN {query_lower_of(query)} ELSE {})

\* lines 425-456: keyword_match_score of a chunk text for a query
keyword_match_score_of(query, page_content) ==
    LET query_lower == query_lower_of(query)
        content_lower == Lower(page_content)
        full_query_matched == Contains(content_lower, query_lower)
        full_score == IF full_query_matched
                      THEN Min(60, 40 + (Count(content_lower, query_lower) - 1) * 10)
                      ELSE 0
        keywords == {k \in query_keywords_of(query) :
                       /\ k # query_lower
                       /\ Len(k) >= 2
                       /\ Count(content_lower, k) > 0}
        keyword_score == SumOver(keywords,
                                 [k \in keywords |->
                                    Min(30, 20 + (Count(content_lower, k) - 1) * 5)])
        matched_keywords == (IF full_query_matched THEN 1 ELSE 0) + Cardinality(keywords)
    IN IF matched_keywords = 0 THEN -10
       ELSE full_score + keyword_score + (IF matched_keywords >= 2 THEN 15 ELSE 0)

\* lines 462-488: the entry of page_best_results for a (doc, distance) pair
SemanticEntry(doc, distance, query) ==
    [content |-> doc.page_content, metadata |-> doc.metadata,
     score |-> Clamp(0, 100, similarity_of(distance)
                               + keyword_match_score_of(query, doc.page_content)),
     distance |-> distance,
     semantic_score |-> similarity_of(distance),
     keyword_boost |-> keyword_match_score_of(query, doc.page_content)]

page_key(entry) == <<entry.metadata.file_name, entry.metadata.page_num>>

\* mutant: a candidate replaces the entry of its page when its score is not lower
RECURSIVE page_best_results_last_of_equals(_, _, _, _)
page_best_results_last_of_equals(results, query, min_score, best) ==
    IF results = <<>> THEN best
    ELSE LET entry == SemanticEntry(Head(results).doc, Head(results).distance, query)
             rest == Tail(results)
         IN IF similarity_of(Head(results).distance) < min_score
            THEN page_best_results_last_of_equals(rest, query, min_score, best)
            ELSE IF \E i \in 1..Len(best) : page_key(best[i]) = page_key(entry)
            THEN LET i == CHOOSE j \in 1..Len(best) : page_key(best[j]) = page_key(entry)
                 IN IF entry.score >= best[i].score
                    THEN page_best_results_last_of_equals(rest, query, min_score,
                                                          [best EXCEPT ![i] = entry])
                    ELSE page_best_results_last_of_equals(rest, query, min_score, best)
            ELSE page_best_results_last_of_equals(rest, query, min_score,
                                                  Append(best, entry))

\* lines 412-488: page_best_results after the loop over results, in the order of
\* the dict: a key keeps the place of its first insertion
RECURSIVE page_best_results(_, _, _, _)
page_best_results(results, query, min_score, best) ==
    IF results = <<>> THEN best
    ELSE LET doc == Head(results).doc
             distance == Head(results).distance
             entry == SemanticEntry(doc, distance, query)
             rest == Tail(results)
         IN IF similarity_of(distance) < min_score
            THEN page_best_results(rest, query, min_score, best)
            ELSE IF \E i \in 1..Len(best) : page_key(best[i]) = page_key(entry)
            THEN LET i == CHOOSE j \in 1..Len(best) : page_key(best[j]) = page_key(entry)
                 IN IF entry.score > best[i].score
                    THEN page_best_results(rest, query, min_score,
                                           [best EXCEPT ![i] = entry])
                    ELSE page_best_results(rest, query, min_score, best)
            ELSE page_best_results(rest, query, min_score, Append(best, entry))

\* lines 494-499: the results of the file asked for get 0.2 more, up to 1.0
FileBoosted(entry, file_name) ==
    IF entry.metadata.file_name = file_name
    THEN [content |-> entry.content, metadata |-> entry.metadata,
          score |-> Min(100, entry.score + 20), distance |-> entry.distance,
          semantic_score |-> entry.semantic_score,
          keyword_boost |-> entry.keyword_boost, boosted |-> TRUE]
    ELSE entry

\* lines 399-532: what search_similar_slides returns when the semantic query
\* returned results
search_similar_slides_ranked(results, query, top_k, file_name, min_score) ==
    LET best == page_best_results(results, query, min_score, <<>>)
        formatted_results ==
          IF Truthy(file_name)
          THEN [i \in 1..Len(best) |-> FileBoosted(best[i], file_name)]
          ELSE best
    IN Prefix(SortedByKey(formatted_results,
                          [i \in 1..Len(formatted_results) |-> formatted_results[i].score]),
              top_k)

\* mutant: the entry has no method tag
KeywordEntry_untagged(c, query) ==
    [content |-> c.page_content, metadata |-> c.metadata,
     score |-> Min(Count(Lower(c.page_content), Lower(query)) * 10, 100),
     match_count |-> Count(Lower(c.page_content), Lower(query))]

\* lines 603-628: the entry search_by_keyword builds for a stored chunk
KeywordEntry(c, query) ==
    [content |-> c.page_content, metadata |-> c.metadata,
     score |-> Min(Count(Lower(c.page_content), Lower(query)) * 10, 100),
     match_count |-> Count(Lower(c.page_content), Lower(query)),
     method |-> "keyword"]

\* line 631: the key (score, match_count) as one integer, score first
KeywordSortKey(entry) == entry.score * 10000 + entry.match_count

\* lines 606-628: the list `results` of search_by_keyword, for the documents of
\* the collection in the order get() gave them
RECURSIVE KeywordMatches(_, _, _)
KeywordMatches(docs, query, file_name) ==
    IF docs = <<>> THEN <<>>
    ELSE (IF /\ Truthy(file_name) => Head(docs).metadata.file_name = file_name
             /\ Contains(Lower(Head(docs).page_content), Lower(query))
          THEN <<KeywordEntry(Head(docs), query)>>
          ELSE <<>>) \o KeywordMatches(Tail(docs), query, file_name)

\* search_by_keyword(query, top_k, file_name) when get() returned docs
search_by_keyword_value(docs, query, top_k, file_name) ==
    LET results == KeywordMatches(docs, query, file_name)
    IN Prefix(SortedByKey(results, [i \in 1..Len(results) |-> KeywordSortKey(results[i])]),
              top_k)

\* lines 368-372: the filter of the semantic query
WhereMatches(c, file_name, file_type) ==
    /\ Truthy(file_name) => c.metadata.file_name = file_name
    /\ Truthy(file_type) => c.metadata.file_type = file_type

\* cosine distances the index may report for a chunk and a query
Distances == {0, 100, 120}

\* vectorstore.similarity_search_with_score(query, k, filter): the lists of
\* (doc, distance) the index can return, nearest first; which chunk is how near
\* is the embedding model's matter, chunks of equal distance come in any order
similarity_search_with_score(store, k, file_name, file_type) ==
    LET matching == {c \in store : WhereMatches(c, file_name, file_type)}
        n == Min(k, Cardinality(matching))
    IN {results \in [1..n -> [doc : matching, distance : Distances]] :
          /\ \A i, j \in 1..n : i # j => results[i].doc # results[j].doc
          /\ \A i \in 1..(n - 1) : results[i].distance <= results[i + 1].distance}

\* vectorstore.get()["documents"]: the chunks of the collection, in some order
collection_get(store) ==
    {docs \in [1..Cardinality(store) -> store] :
       \A i, j \in 1..Cardinality(store) : i # j => docs[i] # docs[j]}

\* the collection after three uploads: two files named a.pdf with different
\* contents gave a chunk each for page 1, one of them one for page 2
SearchTexts ==
    [t1 |-> <<"a", "b", " ", "c", "d", " ">> \o Rep("x", 6),
     t2 |-> <<"A", "B", " ", "c", "d", " ", "a", "b", " ", "c", "d", " ", "x">>,
     t3 |-> <<"a", "b", " ">> \o Rep("x", 9),
     t4 |-> Rep("x", 12)]

SearchChunk(text, file_name, file_type, page_num, suffix) ==
    [id |-> [file_name |-> file_name, page_num |-> page_num, chunk_index |-> 0,
             suffix |-> suffix],
     page_content |-> text,
     metadata |-> [file_name |-> file_name, file_type |-> file_type,
                   page_num |-> page_num, chunk_index |-> 0, total_chunks |-> 1]]

SearchStore ==
    {SearchChunk(SearchTexts.t1, "a.pdf", "pdf", 1, 1),
     SearchChunk(SearchTexts.t2, "a.pdf", "pdf", 1, 3),
     SearchChunk(SearchTexts.t3, "a.pdf", "pdf", 2, 2),
     SearchChunk(SearchTexts.t4, "b.pptx", "pptx", 1, 4)}

Queries == {<<"A", "B", " ", "c", "d">>, <<"a", "b">>, <<"z", "z">>}

\* one call of search_similar_slides(query, top_k, file_name, file_type, min_score)
SearchCalls ==
    {[op |-> "search_similar_slides", query |-> query, top_k |-> top_k,
      file_name |-> file_name, file_type |-> file_type, min_score |-> min_score] :
       query \in Queries, top_k \in {1, 10}, file_name \in {"None", "a.pdf"},
       file_type \in {"None", "pdf", "pptx"}, min_score \in {0, 50}}

\* a service over the stored collection with one search about to run
InitSearch ==
    /\ documents = {}
    /\ page_analysis = {}
    /\ clock = 0
    /\ lock = "free"
    /\ \E call \in SearchCalls : loc = [w \in Workers |-> IF w = "w1" THEN call ELSE Idle]
    /\ pc = [w \in Workers |-> IF w = "w1" THEN "search" ELSE "idle"]
    /\ ret = [w \in Workers |-> NoRet]
    /\ calls = 1
    /\ chunks = SearchStore
    /\ uuids = 4
    /\ parse_calls = 0
    /\ ingested = {}

\* what search_similar_slides returns to its caller, with the path taken, the
\* calls made to the semantic query and to search_by_keyword and how the latter
\* went
search_result(a, path, results, value, semantic_calls, keyword_calls, fallback) ==
    [op |-> "search_similar_slides", query |-> a.query, top_k |-> a.top_k,
     file_name |-> a.file_name, file_type |-> a.file_type, min_score |-> a.min_score,
     path |-> path, results |-> results, value |-> value, raised |-> FALSE,
     semantic_calls |-> semantic_calls, keyword_calls |-> keyword_calls,
     fallback |-> fallback]

\* the conditions the semantic query can be in: no vectorstore, answering,
\* raising an error of the embedding API (500) or another exception
SemanticBackends == {"uninit", "ok", "raises_500", "raises_other"}

\* lines 357-532: search_similar_slides up to the return of the semantic path or
\* the exception of the semantic query
search_similar_slides(w) ==
    /\ pc[w] = "search"
    /\ LET a == loc[w]
           search_k == Max(a.top_k * 2, 20)
       IN \E backend \in SemanticBackends :
            CASE backend = "uninit" ->
                   /\ Finish(w, search_result(a, "none", <<>>, <<>>, 0, 0, "none"))
              [] backend = "ok" ->
                   \E results \in similarity_search_with_score(chunks, search_k,
                                                               a.file_name, a.file_type) :
                     Finish(w, search_result(a, "semantic", results,
                                             search_similar_slides_ranked(
                                               results, a.query, a.top_k, a.file_name,
                                               a.min_score),
                                             1, 0, "none"))
              [] OTHER ->
                   /\ pc' = [pc EXCEPT ![w] = "search_fallback"]
                   /\ loc' = [loc EXCEPT ![w] =
                                [op |-> "search_similar_slides", query |-> a.query,
                                 top_k |-> a.top_k, file_name |-> a.file_name,
                                 file_type |-> a.file_type, min_score |-> a.min_score,
                                 error |-> backend, semantic_calls |-> 1]]
                   /\ UNCHANGED ret
    /\ UNCHANGED <<documents, page_analysis, clock, lock, calls, storeVars, uuids>>

\* the conditions get() can be in when search_by_keyword runs
KeywordBackends == {"ok", "get_raises", "no_documents"}

\* mutant: the except branch returns [] without calling search_by_keyword
search_by_keyword_not_called(w) ==
    /\ pc[w] = "search_fallback"
    /\ Finish(w, search_result(loc[w], "keyword", <<>>, <<>>, loc[w].semantic_calls, 0,
                               "none"))
    /\ UNCHANGED <<documents, page_analysis, clock, lock, calls, storeVars, uuids>>

\* lines 534-578 and 580-637: the except branch calls search_by_keyword once and
\* returns its results, or [] when it has none or fails
search_by_keyword(w) ==
    /\ pc[w] = "search_fallback"
    /\ LET a == loc[w]
       IN \E backend \in KeywordBackends :
            IF backend = "ok"
            THEN \E docs \in collection_get(chunks) :
                   Finish(w, search_result(a, "keyword", <<>>,
                                           search_by_keyword_value(docs, a.query, a.top_k,
                                                                   a.file_name),
                                           a.semantic_calls, 1, backend))
            ELSE Finish(w, search_result(a, "keyword", <<>>, <<>>, a.semantic_calls, 1,
                                         backend))
    /\ UNCHANGED <<documents, page_analysis, clock, lock, calls, storeVars, uuids>>

NextSearch ==
    \E w \in Workers :
      \/ search_similar_slides(w)
      \/ search_by_keyword(w)

SpecSearch == InitSearch /\ [][NextSearch]_vars

\* ------------------------------------------------------------------ claims
\* the step in which worker w's upsert_document writes (from either caller)
UpsertDocumentWrites(w) == pc[w] = "ud_write" /\ pc'[w] = "idle"

\* the rows table holds for file_hash h / for file name f
RowsOfHash(table, h) == {r \in table : r.file_hash = h}

\* C1: once an ingest of some bytes has answered 200, a further ingest of the same
\* bytes answers 200 with the same file_hash, the doc_id stored for that hash and
\* cached = true, and leaves the set of chunks as it was.
C1_IngestIdempotent ==
    [][\A w \in Workers, f \in Files :
         (expand_ppt(w, f) /\ f.bytes \in ingested) =>
           /\ pc'[w] = "idle"
           /\ ret'[w].op = "expand_ppt" /\ ret'[w].status = 200
           /\ ret'[w].file_hash = sha256_file(f.bytes)
           /\ "cached" \in DOMAIN ret'[w] /\ ret'[w].cached = TRUE
           /\ ret'[w].doc_id \in {r.doc_id : r \in RowsOfHash(documents, sha256_file(f.bytes))}
           /\ chunks' = chunks]_vars

\* C1 witness: a second ingest of bytes already ingested has answered, cached.
C1_Witness ==
    \E w \in Workers :
      /\ ret[w].op = "expand_ppt" /\ ret[w].status = 200
      /\ "cached" \in DOMAIN ret[w]
      /\ parse_calls = 1 /\ calls = 2 /\ chunks # {}

\* C2: no two rows of documents have the same file_hash.
C2_FileHashUnique ==
    \A r1, r2 \in documents : r1.file_hash = r2.file_hash => r1 = r2

\* C2 witness: two overlapping upsert_document calls for one file_hash have both
\* returned.
C2_Witness ==
    /\ \A w \in Workers : ret[w].op = "upsert_document" /\ ret[w].error = "none"
    /\ Cardinality(documents) = 1

\* C3: an ingest that finds a Document for the hash returns in that step: the
\* parser is not called, the chunks, documents and page_analysis are unchanged.
C3_CacheHitShortCircuits ==
    [][\A w \in Workers, f \in Files :
         (expand_ppt(w, f) /\ RowsOfHash(documents, sha256_file(f.bytes)) # {}) =>
           /\ pc'[w] = "idle"
           /\ parse_calls' = parse_calls
           /\ chunks' = chunks
           /\ documents' = documents
           /\ page_analysis' = page_analysis]_vars

\* C3 witness: an ingest was answered from the cache while the store held no chunk
\* of that upload (the first ingest's store had failed).
C3_Witness ==
    \E w \in Workers :
      /\ ret[w].op = "expand_ppt" /\ ret[w].status = 200
      /\ "cached" \in DOMAIN ret[w]
      /\ chunks = {}

\* C4: page_analysis has at most one row per (doc_id, page_id).
C4_PageKeyUnique ==
    \A r1, r2 \in page_analysis :
      (r1.doc_id = r2.doc_id /\ r1.page_id = r2.page_id) => r1 = r2

\* C4 witness: two overlapping upsert_page_analysis calls for one key have both
\* returned.
C4_Witness ==
    /\ \A w \in Workers : ret[w].op = "upsert_page_analysis" /\ ret[w].error = "none"
    /\ Cardinality(page_analysis) = 1

\* C5: upsert_document on a stored file_hash keeps the number of rows and the
\* row's doc_id and created_at, and sets file_name, file_type and the slides to
\* those of the call; on a new file_hash it adds exactly one row, with
\* created_at = updated_at.
C5_UpsertUpdatesInPlace ==
    [][\A w \in Workers :
         UpsertDocumentWrites(w) =>
           LET a == loc[w]
               old == RowsOfHash(documents, a.file_hash)
               new == RowsOfHash(documents', a.file_hash)
           IN IF old # {}
              THEN /\ Cardinality(documents') = Cardinality(documents)
                   /\ {r.doc_id : r \in new} = {r.doc_id : r \in old}
                   /\ a.doc_id \notin {r.doc_id : r \in new}
                   /\ {r.created_at : r \in new} = {r.created_at : r \in old}
                   /\ \A r \in new : /\ r.file_name = a.file_name
                                     /\ r.file_type = a.file_type
                                     /\ r.slides_json = a.slides_json
                                     /\ DocumentDict(r).slides = json_loads(a.slides_json)
                   /\ documents' \ new = documents \ old
              ELSE /\ Cardinality(new) = 1
                   /\ documents' = documents \cup new
                   /\ \A r \in new : r.created_at = r.updated_at /\ r.doc_id = a.doc_id]_vars

\* C5 witness: a row that a later upsert_document of its hash has updated.
C5_Witness ==
    \E r \in documents :
      /\ r.created_at < r.updated_at
      /\ r.global_analysis_json = "None"
      /\ r.file_name = "b.pptx"
      /\ \E w \in Workers : ret[w].op = "upsert_document"

\* C6 (as claimed): upsert_document on a stored file_hash leaves global_analysis
\* as it was when none is passed, and stores the one passed, whatever its value.
C6_GlobalAnalysisIfProvided ==
    [][\A w \in Workers :
         (UpsertDocumentWrites(w) /\ RowsOfHash(documents, loc[w].file_hash) # {}) =>
           LET a == loc[w]
               old == RowsOfHash(documents, a.file_hash)
               new == RowsOfHash(documents', a.file_hash)
           IN IF a.global_analysis = "None"
              THEN {r.global_analysis_json : r \in new} = {r.global_analysis_json : r \in old}
              ELSE \A r \in new : DocumentDict(r).global_analysis = a.global_analysis]_vars

\* C7 (as claimed): update_global_analysis for a doc_id that no Document has ends
\* in a NotFoundError and leaves documents unchanged.
C7_UnknownDocIdNotFound ==
    [][\A w \in Workers :
         (update_global_analysis_write(w) /\ SelectById(documents, loc[w].doc_id) = {}) =>
           /\ ret'[w].error = "NotFoundError"
           /\ documents' = documents]_vars

\* the step in which worker w's upsert_page_analysis writes
UpsertPageAnalysisWrites(w) == pc[w] = "upa_write" /\ pc'[w] = "idle"

PurgeAnswers(w) == pc[w] = "idle" /\ ret'[w] # ret[w] /\ ret'[w].op = "delete_file_slides"

\* C9 (as claimed): after a purge of a file that returned true, the store holds no
\* chunk with that file_name and the cache holds no Document of that file, so an
\* ingest of the same bytes is not answered from the cache.
C9_PurgeRemovesDocument ==
    [][\A w \in Workers :
         (PurgeAnswers(w) /\ ret'[w].success) =>
           /\ GetWhereFile(chunks', ret'[w].file_name) = {}
           /\ {r \in documents' : r.file_name = ret'[w].file_name} = {}
           /\ \A f \in Files :
                f.file_name = ret'[w].file_name =>
                  get_document_by_hash_value(documents', sha256_file(f.bytes)) = {PyNone}
      ]_vars

\* C10 (as claimed): after purge(f), getByFile(f) returns the empty list, and
\* purge returns true exactly when a chunk with file_name f existed.
C10_PurgeThenGetEmpty ==
    [][\A w \in Workers :
         PurgeAnswers(w) =>
           /\ search_by_file_value(chunks', ret'[w].file_name, "ok") = {}
           /\ ret'[w].success <=> GetWhereFile(chunks, ret'[w].file_name) # {}]_vars

\* C10 (amended): purge returns true exactly when a chunk with file_name f existed
\* and the store was initialised and its get and delete did not raise; then every
\* chunk of f and no other chunk is deleted and getByFile(f) returns the empty
\* list, as it does when no chunk of f existed; a purge that returns false leaves
\* the store as it was.
C10_PurgeThenGetEmptyUnlessFailed ==
    [][\A w \in Workers :
         PurgeAnswers(w) =>
           LET f == ret'[w].file_name
               existed == GetWhereFile(chunks, f) # {}
           IN /\ ret'[w].success <=> (existed /\ ret'[w].backend = "ok")
              /\ (ret'[w].success \/ ~existed) =>
                   \A backend \in GetBackends : search_by_file_value(chunks', f, backend) = {}
              /\ ret'[w].success => chunks' = chunks \ GetWhereFile(chunks, f)
              /\ ~ret'[w].success => chunks' = chunks]_vars

\* C10 witness: a purge has returned true for a file of two chunks while the
\* chunks of another file stay in the store.
C10_Witness ==
    \E w \in Workers :
      /\ ret[w].op = "delete_file_slides" /\ ret[w].success
      /\ ret[w].file_name = "a.pdf"
      /\ GetWhereFile(chunks, "a.pdf") = {}
      /\ chunks # {}

\* the call of _split_text_for_embedding worker w has returned from
SplitReturned(w) == ret[w].op = "_split_text_for_embedding"

\* the call of store_document_slides worker w has returned from or raised in
StoreReturned(w) == ret[w].op = "store_document_slides"

RECURSIVE ConcatChunks(_)
ConcatChunks(text_chunks) ==
    IF text_chunks = <<>> THEN <<>>
    ELSE Head(text_chunks) \o ConcatChunks(Tail(text_chunks))

\* a text without its newline characters
WithoutNewlines(t) == SelectSeq(t, LAMBDA c : c # "\n")

\* C12: the chunks of _split_text_for_embedding(text, max_tokens), put one after
\* the other in chunk order and with the newline characters removed, are the text
\* with its newline characters removed: no character is lost or moved, an
\* over-long line is cut into consecutive pieces.
C12_ChunkingLossless ==
    \A w \in Workers :
      SplitReturned(w) =>
        WithoutNewlines(ConcatChunks(ret[w].value)) = WithoutNewlines(ret[w].text)

\* C12 witness: a text of different lines, one of them longer than the budget,
\* has been split into packed and cut chunks.
C12_Witness ==
    \E w \in Workers :
      /\ SplitReturned(w)
      /\ ret[w].text = <<"b", "\n", "a", "a", "b", "a", "b">>
      /\ ret[w].max_tokens = 1
      /\ ret[w].value = <<<<"b">>, <<"a", "a", "b">>, <<"a", "b">>>>

\* the chunks the store holds for a page of a file
PageChunks(store, file_name, page_num) ==
    {c \in store : c.metadata.file_name = file_name /\ c.metadata.page_num = page_num}

\* C13: when store_document_slides returns, a page whose flattened text has fewer
\* than 10 characters once stripped has no chunk in the store; a page with at
\* least 10 has, when the backend refuses nothing, N >= 1 chunks whose
\* chunk_index values are 0..N-1 and whose total_chunks is N; whatever the
\* backend refuses, the chunks stored for a page have distinct chunk_index values
\* below their common total_chunks.
C13_ShortPagesSkipped ==
    \A w \in Workers :
      (StoreReturned(w) /\ ~ret[w].raised) =>
        LET slides == Slides(ret[w].slides)
        IN \A k \in 1..Len(slides) :
             LET stripped == Strip(_extract_slide_text(slides[k]))
                 page == PageChunks(chunks, ret[w].file_name, slides[k].page_num)
                 N == Cardinality(page)
             IN /\ Len(stripped) < 10 => page = {}
                /\ (Len(stripped) >= 10 /\ ret[w].bad = {}) =>
                     /\ N >= 1
                     /\ {c.metadata.chunk_index : c \in page} = 0..(N - 1)
                     /\ \A c \in page : c.metadata.total_chunks = N
                /\ \A c, d \in page :
                     /\ c.metadata.chunk_index \in 0..(c.metadata.total_chunks - 1)
                     /\ c.metadata.total_chunks = d.metadata.total_chunks
                     /\ c.metadata.chunk_index = d.metadata.chunk_index => c = d

\* C13 witness: a deck has been stored whose page 2 gave three chunks, whose
\* page 3 (5 characters once stripped) gave none and whose page 4 (exactly 10
\* characters) gave one.
C13_Witness ==
    \E w \in Workers :
      /\ StoreReturned(w) /\ ~ret[w].raised /\ ret[w].bad = {}
      /\ Cardinality(PageChunks(chunks, ret[w].file_name, 2)) = 3
      /\ PageChunks(chunks, ret[w].file_name, 3) = {}
      /\ \E c \in PageChunks(chunks, ret[w].file_name, 4) : Len(c.page_content) = 10

\* C14: store_document_slides on an initialised store returns without raising
\* whatever set of its chunks the backend refuses; when it returns, a chunk is in
\* the store exactly when the backend accepts it on its own, in the batch that
\* failed and in the batches after it, and the returned count is the number of
\* chunks inserted.
C14_PartialFailureTolerated ==
    \A w \in Workers :
      StoreReturned(w) =>
        LET docs == SlideDocuments(Slides(ret[w].slides), ret[w].file_name,
                                   ret[w].file_type)
            InStore(k) == \E c \in chunks : /\ c.page_content = docs[k].page_content
                                            /\ c.metadata = docs[k].metadata
        IN /\ ret[w].raised <=> ret[w].backend = "uninit"
           /\ ~ret[w].raised =>
                /\ \A k \in 1..Len(docs) : InStore(k) <=> k \notin ret[w].bad
                /\ ret[w].total_chunks = Cardinality(chunks)
                /\ ret[w].total_chunks = Len(docs) - Cardinality(ret[w].bad)

\* C14 witness: of seven chunks the backend has refused the second and the
\* seventh, one in each batch, and the other five are in the store.
C14_Witness ==
    \E w \in Workers :
      /\ StoreReturned(w) /\ ~ret[w].raised
      /\ ret[w].bad = {2, 7}
      /\ ret[w].total_chunks = 5
      /\ Cardinality(chunks) = 5

\* C20 (as claimed): when a text longer than the budget has no line longer than
\* the budget, a chunk of _split_text_for_embedding ends only where the chunk,
\* a newline and the next line together are longer than max_chars; a next line
\* that brings the chunk to exactly max_chars characters is packed into it.
C20_GreedyPacking ==
    \A w \in Workers :
      (/\ SplitReturned(w)
       /\ Len(ret[w].text) > ret[w].max_tokens * 3
       /\ \A k \in 1..Len(SplitLines(ret[w].text)) :
            Len(SplitLines(ret[w].text)[k]) <= ret[w].max_tokens * 3) =>
        \A i \in 1..(Len(ret[w].value) - 1) :
          Len(ret[w].value[i]) + 1 + Len(SplitLines(ret[w].value[i + 1])[1])
            > ret[w].max_tokens * 3

\* the call of search_similar_slides worker w has returned from
SearchReturned(w) == ret[w].op = "search_similar_slides"

\* C15 (as claimed): the list search_similar_slides returns, from the semantic
\* path or from the keyword fallback, has no two entries of the same
\* (file_name, page_num).
C15_NoDuplicatePages ==
    \A w \in Workers :
      SearchReturned(w) =>
        \A i, j \in 1..Len(ret[w].value) :
          page_key(ret[w].value[i]) = page_key(ret[w].value[j]) => i = j

\* C16 (as claimed): on the semantic path every returned entry has
\* final = clamp(semantic + lexical boost, 0, 1) >= min_score, final being its
\* score when no file was asked for, and no candidate whose final score is
\* >= min_score is dropped by the min_score filter.
C16_MinScoreOnFinal ==
    \A w \in Workers :
      (SearchReturned(w) /\ ret[w].path = "semantic") =>
        /\ \A i \in 1..Len(ret[w].value) :
             LET entry == ret[w].value[i]
                 final == Clamp(0, 100, entry.semantic_score + entry.keyword_boost)
             IN /\ final >= ret[w].min_score
                /\ ~Truthy(ret[w].file_name) => entry.score = final
        /\ \A i \in 1..Len(ret[w].results) :
             LET candidate == SemanticEntry(ret[w].results[i].doc,
                                            ret[w].results[i].distance, ret[w].query)
             IN candidate.score >= ret[w].min_score =>
                  candidate.semantic_score >= ret[w].min_score

\* C17: search_similar_slides never raises; a search that returns after the
\* semantic query raised has called search_by_keyword exactly once and the
\* semantic query exactly once, and returns [] when search_by_keyword failed; a
\* search that returns from the semantic path has not called search_by_keyword;
\* while the fallback is pending the semantic query has been made once.
C17_QueryStateMachine ==
    \A w \in Workers :
      /\ (pc[w] = "search_fallback") => loc[w].semantic_calls = 1
      /\ SearchReturned(w) =>
           /\ ~ret[w].raised
           /\ ret[w].semantic_calls <= 1
           /\ ret[w].path = "semantic" =>
                ret[w].semantic_calls = 1 /\ ret[w].keyword_calls = 0
           /\ ret[w].path = "keyword" =>
                /\ ret[w].semantic_calls = 1 /\ ret[w].keyword_calls = 1
                /\ ret[w].fallback \in {"get_raises", "no_documents"} =>
                     ret[w].value = <<>>
           /\ ret[w].path = "none" =>
                ret[w].semantic_calls = 0 /\ ret[w].keyword_calls = 0 /\ ret[w].value = <<>>

\* C17 witness: the semantic query raised, search_by_keyword was called and
\* failed too, and the search returned [].
C17_Witness ==
    \E w \in Workers :
      /\ SearchReturned(w)
      /\ ret[w].path = "keyword" /\ ret[w].fallback = "get_raises"
      /\ ret[w].semantic_calls = 1 /\ ret[w].keyword_calls = 1
      /\ ret[w].value = <<>>

\* C18: every entry of a list returned after the semantic query raised carries
\* method = "keyword", and no entry returned by the semantic path carries a
\* method tag.
C18_MethodTag ==
    \A w \in Workers :
      SearchReturned(w) =>
        \A i \in 1..Len(ret[w].value) :
          LET entry == ret[w].value[i]
          IN /\ ret[w].path = "keyword" =>
                  "method" \in DOMAIN entry /\ entry.method = "keyword"
             /\ ret[w].path = "semantic" => "method" \notin DOMAIN entry

\* C18 witness: the semantic query raised and the fallback returned entries.
C18_Witness ==
    \E w \in Workers :
      /\ SearchReturned(w)
      /\ ret[w].path = "keyword" /\ ret[w].semantic_calls = 1
      /\ Len(ret[w].value) >= 2

\* C19 (as claimed): of two returned entries of different pages and equal
\* distance, one whose text contains the lower-cased query and one whose text
\* does not, the first has the strictly higher score and the earlier place.
C19_ScoreMonotonicity ==
    \A w \in Workers :
      (SearchReturned(w) /\ ret[w].path = "semantic") =>
        \A i, j \in 1..Len(ret[w].value) :
          LET a == ret[w].value[i]
              b == ret[w].value[j]
          IN (/\ page_key(a) # page_key(b)
              /\ a.distance = b.distance
              /\ Contains(Lower(a.content), query_lower_of(ret[w].query))
              /\ ~Contains(Lower(b.content), query_lower_of(ret[w].query))) =>
               a.score > b.score /\ i < j

\* the (page_content, metadata) pairs of a set of chunks, ids left aside
Contents(store) == {[page_content |-> c.page_content, metadata |-> c.metadata] : c \in store}

\* the chunks of store that carry the text and metadata of c
Copies(store, c) ==
    {d \in store : d.page_content = c.page_content /\ d.metadata = c.metadata}

\* C21 (as claimed): when store_document_slides with overwrite=true returns
\* without an insert failure, the chunks the store holds for the file name are
\* exactly the chunks this call has produced, whatever earlier runs have left, so
\* a second run leaves the contents of the first; with overwrite=false a run on
\* top of an earlier one adds one more copy of every chunk.
C21_OverwriteReplaces ==
    \A w \in Workers :
      (StoreReturned(w) /\ ~ret[w].raised /\ ret[w].bad = {}) =>
        /\ ret[w].overwrite =>
             GetWhereFile(chunks, ret[w].file_name) = ret[w].added
        /\ ~ret[w].overwrite =>
             \A c \in ret[w].added :
               Cardinality(Copies(chunks, c)) = Cardinality(Copies(ret[w].before, c)) + 1

\* the candidate search_similar_slides builds from the j-th pair of the index
Candidate(r, j) == SemanticEntry(r.results[j].doc, r.results[j].distance, r.query)

\* the positions, in the list the index returned, of the candidates of the page
\* of entry that passed the min_score filter
PassedOfPage(r, entry) ==
    {j \in 1..Len(r.results) :
       /\ page_key(Candidate(r, j)) = page_key(entry)
       /\ Candidate(r, j).semantic_score >= r.min_score}

\* the first position of S whose candidate has the highest final score of S
FirstBest(r, S) ==
    CHOOSE j \in S :
      /\ \A k \in S : Candidate(r, k).score <= Candidate(r, j).score
      /\ \A k \in S : Candidate(r, k).score = Candidate(r, j).score => j <= k

\* C22: on the semantic path, the entry returned for a (file_name, page_num) is
\* the candidate chunk of that page with the highest final score among the
\* candidates of the page that passed the min_score filter, the first of them in
\* the order of the index when several have that score, whatever that order is.
C22_BestChunkPerPage ==
    \A w \in Workers :
      (SearchReturned(w) /\ ret[w].path = "semantic") =>
        \A i \in 1..Len(ret[w].value) :
          LET entry == ret[w].value[i]
              passed == PassedOfPage(ret[w], entry)
          IN /\ passed # {}
             /\ LET chosen == Candidate(ret[w], FirstBest(ret[w], passed))
                IN /\ entry.content = chosen.content
                   /\ entry.metadata = chosen.metadata
                   /\ entry.distance = chosen.distance
                   /\ entry.semantic_score = chosen.semantic_score
                   /\ entry.keyword_boost = chosen.keyword_boost

\* C22 witness: a page had two candidate chunks past the filter, of different
\* texts and the same final score, and the one the index returned first is the
\* entry of the page in the result.
C22_Witness ==
    \E w \in Workers :
      /\ SearchReturned(w) /\ ret[w].path = "semantic"
      /\ \E i \in 1..Len(ret[w].value) :
           LET passed == PassedOfPage(ret[w], ret[w].value[i])
               first == FirstBest(ret[w], passed)
           IN /\ Cardinality(passed) = 2
              /\ \E j \in passed :
                   /\ j > first
                   /\ Candidate(ret[w], j).score = Candidate(ret[w], first).score
                   /\ Candidate(ret[w], j).content # Candidate(ret[w], first).content
              /\ ret[w].value[i].content = Candidate(ret[w], first).content

\* worker w is between the existence check of its upsert and its commit
InCritical(w) == pc[w] \in {"ud_write", "upa_write"}

\* worker w commits its upsert in this step
Commits(w) == InCritical(w) /\ pc'[w] = "idle"

\* C23: at most one of upsert_document, update_global_analysis and
\* upsert_page_analysis is between its existence check and its commit: no table
\* changes while a worker that does not move is there, and the rows a writer's
\* check saw are the rows the table holds when it writes. So of two concurrent
\* upsert_document calls with the same new file_hash, or upsert_page_analysis
\* calls with the same new key, the first to commit inserts, the second updates
\* that row, and neither fails with a uniqueness violation.
C23_WritesMutuallyExclusive ==
    [][/\ \A v, w \in Workers : (InCritical(v) /\ InCritical(w)) => v = w
       /\ \A w \in Workers :
            (InCritical(w) /\ pc'[w] = pc[w]) =>
              (documents' = documents /\ page_analysis' = page_analysis)
       /\ \A w \in Workers :
            Commits(w) =>
              /\ lock = w
              /\ ret'[w].error = "none"
              /\ pc[w] = "ud_write" =>
                   /\ loc[w].existing = SelectByHash(documents, loc[w].file_hash)
                   /\ Cardinality(SelectByHash(documents', loc[w].file_hash)) = 1
                   /\ Cardinality(documents') =
                        Cardinality(documents) + (IF loc[w].existing = {} THEN 1 ELSE 0)
              /\ pc[w] = "upa_write" =>
                   /\ loc[w].existing =
                        SelectPage(page_analysis, loc[w].doc_id, loc[w].page_id)
                   /\ Cardinality(SelectPage(page_analysis', loc[w].doc_id,
                                             loc[w].page_id)) = 1
                   /\ Cardinality(page_analysis') =
                        Cardinality(page_analysis)
                          + (IF loc[w].existing = {} THEN 1 ELSE 0)]_vars

\* C23 witness: two upsert_document calls for the same file_hash were in flight
\* together when the table did not hold it; the first has inserted, and the
\* second, which waited for the lock, is about to update the row it found.
C23_Witness ==
    /\ pc["w2"] = "ud_write" /\ pc["w1"] = "idle"
    /\ ret["w1"].op = "upsert_document" /\ ret["w1"].error = "none"
    /\ loc["w2"].existing # {}
    /\ loc["w2"].existing = SelectByHash(documents, loc["w2"].file_hash)
    /\ Cardinality(documents) = 1


\* worker w answers an analyze_page request in this step, from the cache or
\* after the call of the service
AnalyzeAnswers(w) ==
    /\ pc'[w] = "idle"
    /\ pc[w] = "ap_service" \/ (pc[w] = "idle" /\ calls' # calls)
    /\ ret'[w].op = "analyze_page"

\* C24: analyze_page with a doc_id, force=false and an analysis stored for
\* (doc_id, page_id) returns the stored analysis with cached=true, does not call
\* the analysis service and leaves page_analysis as it is; otherwise it calls the
\* service exactly once: when the service succeeds and the request has a doc_id
\* the result becomes the one stored analysis of (doc_id, page_id) and no other
\* row changes, and when the service fails page_analysis is unchanged.
C24_PageAnalysisCacheProtocol ==
    [][\A w \in Workers :
         AnalyzeAnswers(w) =>
           LET r == ret'[w]
               stored == SelectPage(page_analysis, r.doc_id, r.page_id)
           IN IF Truthy(r.doc_id) /\ ~r.force /\ stored # {}
              THEN /\ r.status = 200 /\ r.cached
                   /\ r.service_calls = 0
                   /\ \E row \in stored : r.data = PageAnalysisDict(row)
                   /\ page_analysis' = page_analysis
              ELSE /\ ~r.cached
                   /\ r.service_calls = 1
                   /\ (r.status = 200 /\ Truthy(r.doc_id)) =>
                        /\ \E row \in page_analysis' :
                             /\ SelectPage(page_analysis', r.doc_id, r.page_id) = {row}
                             /\ row.analysis_json = json_dumps(r.data.data)
                        /\ page_analysis' \ SelectPage(page_analysis', r.doc_id, r.page_id)
                             = page_analysis \ stored
                   /\ (r.status # 200 \/ ~Truthy(r.doc_id)) =>
                        page_analysis' = page_analysis]_vars

\* C24 witness: a forced analysis of a page whose analysis was stored earlier has
\* succeeded and the stored analysis is now its result, written later than the
\* row was created.
C24_Witness ==
    \E w \in Workers :
      /\ ret[w].op = "analyze_page" /\ ret[w].force /\ ret[w].status = 200
      /\ \E row \in SelectPage(page_analysis, ret[w].doc_id, ret[w].page_id) :
           /\ row.analysis_json = json_dumps(ret[w].data.data)
           /\ row.created_at < row.updated_at

\* worker w's last ingest was answered 200, from the cache or after processing
IngestSucceeded(w) == ret[w].op = "expand_ppt" /\ ret[w].status = 200

\* C25 (as claimed): under any interleaving of concurrent ingest calls, two
\* calls for the same bytes that both miss the hash lookup included, the doc_id a
\* successful ingest has returned is the doc_id of a stored Document whose
\* file_hash is the file_hash returned with it.
C25_ReturnedDocIdAddressable ==
    \A w \in Workers :
      IngestSucceeded(w) =>
        \E existing_doc \in get_document_by_id_value(documents, ret[w].doc_id) :
          /\ existing_doc # PyNone
          /\ existing_doc.file_hash = ret[w].file_hash

\* C26 (as claimed): when two concurrent ingest calls for the same bytes and
\* file name have both returned, the store holds each
\* (file_name, page_num, chunk_index) of that file at most once.
C26_NoDuplicateChunks ==
    (/\ \A w \in Workers : pc[w] = "idle" /\ IngestSucceeded(w)
     /\ calls = 2
     /\ ingested = {"b1"})
      => \A c, d \in chunks :
           (/\ c.metadata.file_name = d.metadata.file_name
            /\ c.metadata.page_num = d.metadata.page_num
            /\ c.metadata.chunk_index = d.metadata.chunk_index) => c = d

\* C27 (as claimed): every Document and PageAnalysis row has
\* created_at <= updated_at; from one committed write to the next the
\* created_at of a row does not change and its updated_at does not decrease.
C27_TimestampsMonotone ==
    [][/\ \A r \in documents' \cup page_analysis' : r.created_at <= r.updated_at
       /\ \A r \in documents, q \in documents' :
            r.doc_id = q.doc_id =>
              (q.created_at = r.created_at /\ q.updated_at >= r.updated_at)
       /\ \A r \in page_analysis, q \in page_analysis' :
            (r.doc_id = q.doc_id /\ r.page_id = q.page_id) =>
              (q.created_at = r.created_at /\ q.updated_at >= r.updated_at)]_vars

\* C28 (as claimed): each row of page_analysis has the doc_id of a row of
\* documents, and upsert_page_analysis with a doc_id that no Document has
\* creates no row and reports the unknown doc_id to its caller.
C28_ReferentialIntegrity ==
    [][/\ \A r \in page_analysis' : SelectById(documents', r.doc_id) # {}
       /\ \A w \in Workers :
            (/\ Commits(w)
             /\ pc[w] = "upa_write"
             /\ SelectById(documents, loc[w].doc_id) = {}) =>
              (page_analysis' = page_analysis /\ ret'[w].error # "none")]_vars

\* C29 (as claimed): every entry search_similar_slides returns has the file_name
\* asked for, when one is given, and the file_type asked for, when one is given,
\* on the semantic path and on the keyword fallback alike.
C29_CallerFiltersHold ==
    \A w \in Workers :
      SearchReturned(w) =>
        \A i \in 1..Len(ret[w].value) :
          /\ Truthy(ret[w].file_name) =>
               ret[w].value[i].metadata.file_name = ret[w].file_name
          /\ Truthy(ret[w].file_type) =>
               ret[w].value[i].metadata.file_type = ret[w].file_type

\* worker w is in an ingest whose store_document_slides call has raised
IngestStoreRaised(w) ==
    /\ pc[w] \in {"ing_upsert", "ud_lock", "ud_write"}
    /\ loc[w].store_raised

\* C30 (as claimed): an ingest whose store_document_slides call raised inserts no
\* row into documents, so that a later ingest of the same bytes is not answered
\* from the cache while the file has no chunk in the store.
C30_DocumentOnlyIfChunksStored ==
    [][\A w \in Workers :
         (IngestStoreRaised(w) /\ pc'[w] # pc[w]) => documents' = documents]_vars

====
